---- MODULE Spec2Model ----
(***************************************************************************)
(* Site failover worker: the MonitorState durable object (the consistency  *)
(* store), the scheduled health-check cycle (handleScheduled), the         *)
(* simulate-failover / simulate-recovery routes and the management routes  *)
(* that write to the store.                                                *)
(*                                                                         *)
(* Every durable-object request is one atomic action (the object handles   *)
(* one request at a time); a cycle or a simulate request is a sequence of  *)
(* such actions, one per await, so other requests interleave between them. *)
(***************************************************************************)
EXTENDS Integers, Sequences, FiniteSets, TLC

\* ---------------------------------------------------------------- bounds
MaxTime == 2            \* the clock runs over 0..MaxTime
MaxCycles == 2          \* timer firings in Spec
MaxSims == 1            \* simulate requests in Spec
MaxAdminOps == 2        \* management requests in Spec
MaxThreshold == 2       \* thresholds drawn from 1..MaxThreshold
WinMaxCycles == 2       \* timer firings in SpecWin
WinMaxAdminOps == 2     \* management requests in SpecWin
SimMaxCycles == 2       \* timer firings in SpecSim
SupMaxCycles == 4       \* timer firings in SpecSup
SupMaxAdminOps == 2     \* maintenance-mode requests in SpecSup
SeqMaxCycles == 6       \* timer firings in SpecSeq
SeqMaxFailureThreshold == 3
SeqMaxRecoveryThreshold == 2
HistMaxOps == 53        \* rule transitions recorded in SpecHist
RetryMaxCalls == 2      \* updateRedirectRule calls in SpecRetry
MaxRules == 2           \* rules in the ruleset at the rule-management API
LiveMaxCycles == 2      \* cycles started before the target settles, SpecLive
LiveMaxThreshold == 2   \* largest threshold in SpecLive
LiveMaxFailures == 1    \* updateRedirectRule calls returning false, SpecLive
LiveMaxAdminOps == 1    \* maintenance-mode requests in SpecLive
FailMaxCycles == 3      \* timer firings in SpecFail
ConfMaxCycles == 2      \* timer firings in SpecConf
ConfMaxThreshold == 1   \* thresholds of the well-formed environments, SpecConf
HealthMaxCycles == 2    \* timer firings in SpecHealth
HealthMaxRequests == 2  \* GET requests in SpecHealth

\* ------------------------------------------------------ program constants
HistoryCap == 50
NoTime == -1            \* null timestamp
MaxAttempts == 3        \* attempts of one updateRedirectRule call
NoResponse == -1        \* no probe response held by the cycle
StaleAfterSeconds == 120 \* age of the last cron run that makes /health unhealthy
MsPerSecond == 1000
MaxRequests == 60       \* requests the RateLimiter allows per window
WindowMinutes == 1      \* length of a RateLimiter window

Cycles == {"c1", "c2"}
Sims == {"s1"}
Procs == Cycles \cup Sims

\* HTTP statuses the probe may see; 0 stands for a transport error or the
\* abort raised by the timeout
ProbeResponses == {200, 204, 503, 0}

Outcomes == {"success", "failure", "auth"}

VARIABLES
    now,        \* wall clock
    hasState,   \* storage.get('state') is defined
    st,         \* the persisted MonitorStateData
    config,     \* validated configuration (thresholds)
    pc,         \* position of every cycle / simulate request
    loc,        \* their local variables
    extRule,    \* enabled flag of the rule at the rule-management API
    cycleNo,    \* timer firings so far
    simNo,      \* simulate requests so far
    adminNo,    \* management requests so far
    probes,     \* probe results so far (TRUE = healthy), oldest first
    calls,      \* updateRedirectRule calls started so far, oldest first
    resp,       \* the last management request and its HTTP status
    api,        \* one updateRedirectRule call seen from inside (SpecRetry)
    env,        \* what the monitored site and the rule API do (SpecLive)
    boot,       \* the worker's environment and its validatedConfig cache
    rl          \* the RateLimiter: its entries by address and its last answer

vars == <<now, hasState, st, config, pc, loc, extRule, cycleNo, simNo,
          adminNo, probes, calls, resp, api, env, boot, rl>>

\* ------------------------------------------------------------ the store

DefaultState(t) ==
    [failureCount |-> 0,
     recoveryCount |-> 0,
     lastCheckTime |-> NoTime,
     redirectRuleEnabled |-> FALSE,
     maintenanceMode |-> FALSE,
     scheduledMaintenanceWindows |-> <<>>,
     redirectRuleHistory |-> <<>>,
     healthChecksTotal |-> 0,
     successesTotal |-> 0,
     failuresTotal |-> 0,
     redirectRuleChangesTotal |-> 0,
     apiErrorsTotal |-> 0,
     lastCronExecution |-> NoTime,
     workerStartTime |-> t,
     apiCallsDisabled |-> FALSE]

\* mutant: every access stamps the start time again
GetStateRestamping ==
    [(IF hasState THEN st ELSE DefaultState(now)) EXCEPT !.workerStartTime = now]

\* MonitorState.getState: the stored value, or the default on first access
GetState == IF hasState THEN st ELSE DefaultState(now)

\* mutant: the time of the check is not recorded
IncrementFailureKeepsCheckTime(s, t) ==
    [s EXCEPT !.failureCount = @ + 1,
              !.recoveryCount = 0,
              !.failuresTotal = @ + 1,
              !.healthChecksTotal = @ + 1]

\* mutant: the recovery counter is not zeroed
IncrementFailureKeepsRecovery(s, t) ==
    [s EXCEPT !.failureCount = @ + 1,
              !.lastCheckTime = t,
              !.failuresTotal = @ + 1,
              !.healthChecksTotal = @ + 1]

IncrementFailure(s, t) ==
    [s EXCEPT !.failureCount = @ + 1,
              !.recoveryCount = 0,
              !.lastCheckTime = t,
              !.failuresTotal = @ + 1,
              !.healthChecksTotal = @ + 1]

\* mutant: a success leaves the failure counter alone
IncrementRecoveryKeepsFailure(s, t) ==
    [s EXCEPT !.recoveryCount = @ + 1,
              !.lastCheckTime = t,
              !.healthChecksTotal = @ + 1,
              !.successesTotal = @ + 1]

\* POST /increment-recovery
IncrementRecovery(s, t) ==
    [s EXCEPT !.recoveryCount = @ + 1,
              !.failureCount = 0,
              !.lastCheckTime = t,
              !.healthChecksTotal = @ + 1,
              !.successesTotal = @ + 1]

\* mutant: the reset also clears the latch
ResetCountersClearsLatch(s) ==
    [s EXCEPT !.failureCount = 0,
              !.recoveryCount = 0,
              !.healthChecksTotal = 0,
              !.successesTotal = 0,
              !.failuresTotal = 0,
              !.redirectRuleChangesTotal = 0,
              !.apiErrorsTotal = 0,
              !.apiCallsDisabled = FALSE]

\* mutant: the reset leaves the number of checks alone
ResetCountersKeepsChecks(s) ==
    [s EXCEPT !.failureCount = 0,
              !.recoveryCount = 0,
              !.successesTotal = 0,
              !.failuresTotal = 0,
              !.redirectRuleChangesTotal = 0,
              !.apiErrorsTotal = 0]

ResetCounters(s) ==
    [s EXCEPT !.failureCount = 0,
              !.recoveryCount = 0,
              !.healthChecksTotal = 0,
              !.successesTotal = 0,
              !.failuresTotal = 0,
              !.redirectRuleChangesTotal = 0,
              !.apiErrorsTotal = 0]

\* mutant: the entry is built from counters that were already reset
HistoryEntryAfterReset(s, t, enabled, reason) ==
    [timestamp |-> t,
     event |-> IF enabled THEN "enabled" ELSE "disabled",
     reason |-> reason,
     failureCount |-> 0,
     recoveryCount |-> 0]

HistoryEntry(s, t, enabled, reason) ==
    [timestamp |-> t,
     event |-> IF enabled THEN "enabled" ELSE "disabled",
     reason |-> reason,
     failureCount |-> s.failureCount,
     recoveryCount |-> s.recoveryCount]

\* mutant: the cap keeps the tail, dropping the entry just added
CapHistoryKeepsOldest(h) ==
    IF Len(h) > HistoryCap THEN SubSeq(h, 2, Len(h)) ELSE h

\* unshift, then slice(0, 50)
CapHistory(h) == IF Len(h) > HistoryCap THEN SubSeq(h, 1, HistoryCap) ELSE h

\* mutant: the entry is pushed to the end of the history
UpdateRedirectRuleStateAppending(s, t, enabled, reason) ==
    [s EXCEPT !.redirectRuleEnabled = enabled,
              !.redirectRuleChangesTotal = @ + 1,
              !.redirectRuleHistory =
                  CapHistory(@ \o <<HistoryEntry(s, t, enabled, reason)>>)]

\* update-redirect-rule-state: the flag, the count of changes, the history
UpdateRedirectRuleState(s, t, enabled, reason) ==
    [s EXCEPT !.redirectRuleEnabled = enabled,
              !.redirectRuleChangesTotal = @ + 1,
              !.redirectRuleHistory =
                  CapHistory(<<HistoryEntry(s, t, enabled, reason)>> \o @)]

SetMaintenanceMode(s, enabled) == [s EXCEPT !.maintenanceMode = enabled]

AddMaintenanceWindow(s, w) ==
    [s EXCEPT !.scheduledMaintenanceWindows = Append(@, w)]

DeleteMaintenanceWindow(s, id) ==
    [s EXCEPT !.scheduledMaintenanceWindows =
                  SelectSeq(@, LAMBDA w : w.id # id)]

CleanMaintenanceWindows(s, t) ==
    [s EXCEPT !.scheduledMaintenanceWindows =
                  SelectSeq(@, LAMBDA w : w.endTime > t)]

\* mutant: counting an API error also zeroes the consecutive counters
IncrementApiErrorsResetting(s) ==
    [s EXCEPT !.apiErrorsTotal = @ + 1,
              !.failureCount = 0,
              !.recoveryCount = 0]

IncrementApiErrors(s) == [s EXCEPT !.apiErrorsTotal = @ + 1]

UpdateCronExecution(s, t) == [s EXCEPT !.lastCronExecution = t]

\* mutant: the latch is not written
DisableApiCallsNoop(s) == s

DisableApiCalls(s) == [s EXCEPT !.apiCallsDisabled = TRUE]

\* mutant: the failure counter is stepped, not set to the threshold
SimulateFailoverIncrement(s, threshold) ==
    [s EXCEPT !.failureCount = @ + 1, !.recoveryCount = 0]

SimulateFailover(s, threshold) ==
    [s EXCEPT !.failureCount = threshold, !.recoveryCount = 0]

SimulateRecovery(s, threshold) ==
    [s EXCEPT !.recoveryCount = threshold, !.failureCount = 0]

\* one durable-object request: read (initialising on first access), apply,
\* persist
Store(new) == st' = new /\ hasState' = TRUE

\* ------------------------------------------------------- validation

\* an environment value read as a number is kept as what parseInt makes of
\* it: "empty" is the missing value, "junk" has no leading digits, "int" is
\* the decimal text of n and "intjunk" is that text followed by other
\* characters
Text(kind, n) == [kind |-> kind, n |-> n]

\* !value
Missing(text) == text.kind = "empty"

\* parseInt(value, 10): <<>> is NaN
ParseInt(text) ==
    IF text.kind \in {"int", "intjunk"} THEN <<text.n>> ELSE <<>>

\* mutant: any URL that parses is accepted
UrlErrorsAnyProtocol(url) ==
    IF url = "" THEN {"MONITOR_URL is required"}
    ELSE IF url = "not-a-url" THEN {"MONITOR_URL must be a valid URL"}
    ELSE {}

\* the MONITOR_URL check
UrlErrors(url) ==
    IF url = "" THEN {"MONITOR_URL is required"}
    ELSE IF url = "not-a-url" THEN {"MONITOR_URL must be a valid URL"}
    ELSE IF url # "https://site" THEN {"MONITOR_URL must be an HTTPS URL"}
    ELSE {}

ThresholdErrors(text, name) ==
    IF Missing(text) \/ ParseInt(text) = <<>> \/ ParseInt(text)[1] <= 0
    THEN {name}
    ELSE {}

TimeoutErrors(text) ==
    IF \/ Missing(text)
       \/ ParseInt(text) = <<>>
       \/ ParseInt(text)[1] < 1
       \/ ParseInt(text)[1] > 30
    THEN {"TIMEOUT_SECONDS"}
    ELSE {}

RequiredErrors(value, name) == IF value = "" THEN {name} ELSE {}

\* (env.LOG_LEVEL || 'debug').toLowerCase()
LogLevelOf(value) ==
    CASE value = "" -> "debug"
      [] value = "WARN" -> "warn"
      [] OTHER -> value

LogLevelErrors(value) ==
    IF LogLevelOf(value) \in {"debug", "info", "warn", "error"}
    THEN {}
    ELSE {"LOG_LEVEL"}

\* the errors array of validateEnvironment
Errors(e) ==
    UrlErrors(e.MONITOR_URL)
    \cup ThresholdErrors(e.FAILURE_COUNT_THRESHOLD, "FAILURE_COUNT_THRESHOLD")
    \cup ThresholdErrors(e.RECOVERY_COUNT_THRESHOLD, "RECOVERY_COUNT_THRESHOLD")
    \cup TimeoutErrors(e.TIMEOUT_SECONDS)
    \cup RequiredErrors(e.REDIRECT_RULE_ID, "REDIRECT_RULE_ID")
    \cup RequiredErrors(e.ACCOUNT_ID, "ACCOUNT_ID")
    \cup RequiredErrors(e.ZONE_ID, "ZONE_ID")
    \cup RequiredErrors(e.CLOUDFLARE_API_TOKEN, "CLOUDFLARE_API_TOKEN")
    \cup RequiredErrors(e.API_TOKEN, "API_TOKEN")
    \cup LogLevelErrors(e.LOG_LEVEL)

\* validateEnvironment does not throw
IsValid(e) == Errors(e) = {}

\* what validateEnvironment returns (the thresholds)
ValidateEnvironment(e) ==
    [failureCountThreshold |-> ParseInt(e.FAILURE_COUNT_THRESHOLD)[1],
     recoveryCountThreshold |-> ParseInt(e.RECOVERY_COUNT_THRESHOLD)[1]]

\* a well-formed environment with the thresholds of cfg
EnvOf(cfg) ==
    [MONITOR_URL |-> "https://site",
     FAILURE_COUNT_THRESHOLD |-> Text("int", cfg.failureCountThreshold),
     RECOVERY_COUNT_THRESHOLD |-> Text("int", cfg.recoveryCountThreshold),
     TIMEOUT_SECONDS |-> Text("int", 10),
     REDIRECT_RULE_ID |-> "id",
     ACCOUNT_ID |-> "id",
     ZONE_ID |-> "id",
     CLOUDFLARE_API_TOKEN |-> "token",
     API_TOKEN |-> "token",
     LOG_LEVEL |-> "info"]

\* let validatedConfig = null
NoConfig == [failureCountThreshold |-> 0, recoveryCountThreshold |-> 0]

InitBoot(e) ==
    [env |-> e, validated |-> FALSE, validatedConfig |-> NoConfig,
     validations |-> 0]

\* the first-run validation fails: the cycle returns
Refused == ~boot.validated /\ ~IsValid(boot.env)

\* if (!validatedConfig) validatedConfig = validateEnvironment(env, logger)
Validate ==
    IF boot.validated
    THEN boot
    ELSE [boot EXCEPT
            !.validations = @ + 1,
            !.validated = IsValid(boot.env),
            !.validatedConfig = IF IsValid(boot.env)
                                THEN ValidateEnvironment(boot.env)
                                ELSE @]

\* --------------------------------------------------------- the cycle

\* mutant: every 2xx status counts as healthy
IsHealthyResponseOk(r) == r >= 200 /\ r <= 299

\* response.status === 200; a rejected fetch leaves isHealthy false
IsHealthyResponse(r) == r = 200

IsInMaintenanceWindow(s, t) ==
    \E i \in 1..Len(s.scheduledMaintenanceWindows) :
        /\ t >= s.scheduledMaintenanceWindows[i].startTime
        /\ t <= s.scheduledMaintenanceWindows[i].endTime

MaintenanceModeActive(s, t) == s.maintenanceMode \/ IsInMaintenanceWindow(s, t)

InitLoc ==
    [no |-> 0,
     latchedAtStart |-> FALSE,
     redirectRuleEnabled |-> FALSE,
     maintenanceModeActive |-> FALSE,
     response |-> NoResponse,
     isHealthy |-> FALSE,
     newCount |-> 0,
     target |-> FALSE,
     outcome |-> "none",
     caught |-> "none"]

Call(p, no, enabled) ==
    [by |-> p, no |-> no, enabled |-> enabled, outcome |-> "pending"]

\* the call of process p returns
CallReturned(log, p, out) ==
    [i \in DOMAIN log |->
        IF log[i].by = p /\ log[i].outcome = "pending"
        THEN [log[i] EXCEPT !.outcome = out]
        ELSE log[i]]

\* mutant: the recorded rule state is not consulted
ShouldDisableIgnoringRule(newState, state, cfg) ==
    newState.recoveryCount >= cfg.recoveryCountThreshold

\* mutant: the rule is disabled only when it is recorded as disabled
ShouldDisableWhenDisabled(newState, state, cfg) ==
    /\ newState.recoveryCount >= cfg.recoveryCountThreshold
    /\ ~state.redirectRuleEnabled

\* newState.recoveryCount >= threshold && state.redirectRuleEnabled
ShouldDisable(newState, state, cfg) ==
    /\ newState.recoveryCount >= cfg.recoveryCountThreshold
    /\ state.redirectRuleEnabled

\* mutant: the rule is enabled only when it is recorded as enabled
ShouldEnableWhenEnabled(newState, state, cfg) ==
    /\ newState.failureCount >= cfg.failureCountThreshold
    /\ state.redirectRuleEnabled

\* mutant: the rule is enabled only by the probe that reaches the threshold
ShouldEnableExactly(newState, state, cfg) ==
    /\ newState.failureCount = cfg.failureCountThreshold
    /\ ~state.redirectRuleEnabled

\* mutant: the threshold is compared with > instead of >=
ShouldEnableStrict(newState, state, cfg) ==
    /\ newState.failureCount > cfg.failureCountThreshold
    /\ ~state.redirectRuleEnabled

\* newState.failureCount >= threshold && !state.redirectRuleEnabled
ShouldEnable(newState, state, cfg) ==
    /\ newState.failureCount >= cfg.failureCountThreshold
    /\ ~state.redirectRuleEnabled

\* mutant: the maintenance flag is not consulted
StartsCallIgnoringMaintenance(reached, maintenanceModeActive) == reached

\* the branch that calls updateRedirectRule is taken
StartsCall(reached, maintenanceModeActive) ==
    reached /\ ~maintenanceModeActive

\* scheduled(): the first-run validation, then updateCronExecution
CycleStart(c, max) ==
    /\ pc[c] \in {"idle", "done"}
    /\ cycleNo < max
    /\ cycleNo' = cycleNo + 1
    /\ boot' = Validate
    /\ IF Refused
       THEN /\ loc' = [loc EXCEPT ![c] = [InitLoc EXCEPT !.no = cycleNo + 1]]
            /\ pc' = [pc EXCEPT ![c] = "done"]
            /\ UNCHANGED <<hasState, st>>
       ELSE /\ Store(UpdateCronExecution(GetState, now))
            /\ loc' = [loc EXCEPT ![c] = [InitLoc EXCEPT
                           !.no = cycleNo + 1,
                           !.latchedAtStart = GetState.apiCallsDisabled]]
            /\ pc' = [pc EXCEPT ![c] = "clean"]
    /\ UNCHANGED <<resp, api, env, rl>>
    /\ UNCHANGED <<now, config, extRule, simNo, adminNo, probes, calls>>

CycleClean(c) ==
    /\ pc[c] = "clean"
    /\ Store(CleanMaintenanceWindows(GetState, now))
    /\ pc' = [pc EXCEPT ![c] = "read"]
    /\ UNCHANGED <<resp, api, env, boot, rl>>
    /\ UNCHANGED <<now, config, loc, extRule, cycleNo, simNo, adminNo,
                   probes, calls>>

\* getState, the apiCallsDisabled check and the maintenance flag
CycleRead(c) ==
    /\ pc[c] = "read"
    /\ Store(GetState)
    /\ IF GetState.apiCallsDisabled
       THEN /\ pc' = [pc EXCEPT ![c] = "done"]
            /\ loc' = loc
       ELSE /\ pc' = [pc EXCEPT ![c] = "probe"]
            /\ loc' = [loc EXCEPT ![c] = [@ EXCEPT
                   !.redirectRuleEnabled = GetState.redirectRuleEnabled,
                   !.maintenanceModeActive =
                       MaintenanceModeActive(GetState, now)]]
    /\ UNCHANGED <<resp, api, env, boot, rl>>
    /\ UNCHANGED <<now, config, extRule, cycleNo, simNo, adminNo, probes,
                   calls>>

CycleProbe(c) ==
    /\ pc[c] = "probe"
    /\ \E r \in ProbeResponses :
        /\ loc' = [loc EXCEPT ![c] = [@ EXCEPT
                       !.response = r,
                       !.isHealthy = IsHealthyResponse(r)]]
        /\ probes' = Append(probes, IsHealthyResponse(r))
    /\ pc' = [pc EXCEPT ![c] = "record"]
    /\ UNCHANGED <<resp, api, env, boot, rl>>
    /\ UNCHANGED <<now, hasState, st, config, extRule, cycleNo, simNo,
                   adminNo, calls>>

\* incrementRecovery / incrementFailure and the threshold condition; when the
\* condition holds and maintenance is off the updateRedirectRule call starts
CycleRecord(c) ==
    /\ pc[c] = "record"
    /\ LET healthy == loc[c].isHealthy
           newState == IF healthy THEN IncrementRecovery(GetState, now)
                                   ELSE IncrementFailure(GetState, now)
           count == IF healthy THEN newState.recoveryCount
                               ELSE newState.failureCount
           reached == IF healthy
                      THEN ShouldDisable(newState, loc[c],
                                         boot.validatedConfig)
                      ELSE ShouldEnable(newState, loc[c],
                                        boot.validatedConfig)
           call == StartsCall(reached, loc[c].maintenanceModeActive)
       IN /\ Store(newState)
          /\ loc' = [loc EXCEPT ![c] = [@ EXCEPT !.response = NoResponse,
                                                 !.newCount = count,
                                                 !.target = ~healthy]]
          /\ pc' = [pc EXCEPT ![c] = IF call THEN "api" ELSE "done"]
          /\ calls' = IF call THEN Append(calls, Call(c, loc[c].no, ~healthy))
                              ELSE calls
    /\ UNCHANGED <<resp, api, env, boot, rl>>
    /\ UNCHANGED <<now, config, extRule, cycleNo, simNo, adminNo, probes>>

\* updateRedirectRule returns true / false or throws AUTHENTICATION_FAILED
ApiDone(p) ==
    /\ pc[p] = "api"
    /\ \E out \in Outcomes :
        /\ loc' = [loc EXCEPT ![p].outcome = out]
        /\ extRule' = IF out = "success" THEN loc[p].target ELSE extRule
        /\ calls' = CallReturned(calls, p, out)
        /\ pc' = [pc EXCEPT ![p] =
                     CASE out = "success" -> "update"
                       [] out = "failure" -> "apierr"
                       [] out = "auth" -> IF p \in Cycles THEN "latch"
                                                         ELSE "done"]
    /\ UNCHANGED <<resp, api, env, boot, rl>>
    /\ UNCHANGED <<now, hasState, st, config, cycleNo, simNo, adminNo,
                   probes>>

Reason(p, enabled) ==
    IF p \in Cycles
    THEN (IF enabled THEN "failure-threshold" ELSE "recovery-threshold")
    ELSE (IF enabled THEN "simulated-failover" ELSE "simulated-recovery")

\* stateManager.updateRedirectRuleState
RecordUpdate(p) ==
    /\ pc[p] = "update"
    /\ Store(UpdateRedirectRuleState(GetState, now, loc[p].target,
                                     Reason(p, loc[p].target)))
    /\ pc' = [pc EXCEPT ![p] = "reset"]
    /\ UNCHANGED <<resp, api, env, boot, rl>>
    /\ UNCHANGED <<now, config, loc, extRule, cycleNo, simNo, adminNo,
                   probes, calls>>

\* stateManager.resetCounters after the transition
RecordReset(p) ==
    /\ pc[p] = "reset"
    /\ Store(ResetCounters(GetState))
    /\ pc' = [pc EXCEPT ![p] = "done"]
    /\ UNCHANGED <<resp, api, env, boot, rl>>
    /\ UNCHANGED <<now, config, loc, extRule, cycleNo, simNo, adminNo,
                   probes, calls>>

\* stateManager.incrementApiErrors
RecordApiError(p) ==
    /\ pc[p] = "apierr"
    /\ Store(IncrementApiErrors(GetState))
    /\ pc' = [pc EXCEPT ![p] = "done"]
    /\ UNCHANGED <<resp, api, env, boot, rl>>
    /\ UNCHANGED <<now, config, loc, extRule, cycleNo, simNo, adminNo,
                   probes, calls>>

\* stateManager.disableApiCalls
CycleLatch(c) ==
    /\ pc[c] = "latch"
    /\ Store(DisableApiCalls(GetState))
    /\ pc' = [pc EXCEPT ![c] = "done"]
    /\ UNCHANGED <<resp, api, env, boot, rl>>
    /\ UNCHANGED <<now, config, loc, extRule, cycleNo, simNo, adminNo,
                   probes, calls>>

\* -------------------------------------------------------- GET requests

\* the paths MonitorState.fetch handles; any other path gets 404
StorePaths ==
    {"state", "increment-failure", "increment-recovery", "reset-counters",
     "update-redirect-rule-state", "set-maintenance-mode",
     "add-maintenance-window", "delete-maintenance-window",
     "clean-maintenance-windows", "increment-api-errors",
     "update-cron-execution", "disable-api-calls", "simulate-failover",
     "simulate-recovery"}

StoreStatus(path) == IF path \in StorePaths THEN 200 ELSE 404

\* StateManager throws unless response.ok; the route's catch answers 500
RouteStatus(storeStatus) == IF storeStatus = 200 THEN 200 ELSE 500

\* mutant: the last cron run is stale from 120 seconds on
HealthStatusFrom120(state, t) ==
    LET lastCronAge == (t - state.lastCronExecution) \div MsPerSecond
    IN IF state.lastCronExecution = NoTime THEN "degraded"
       ELSE IF lastCronAge # 0 /\ lastCronAge >= StaleAfterSeconds
            THEN "unhealthy"
            ELSE "healthy"

\* the status GET /health computes from the state it read; timestamps are in
\* milliseconds and lastCronAge is Math.floor of the age in seconds
HealthStatus(state, t) ==
    LET lastCronAge == (t - state.lastCronExecution) \div MsPerSecond
    IN IF state.lastCronExecution = NoTime THEN "degraded"
       ELSE IF lastCronAge # 0 /\ lastCronAge > StaleAfterSeconds
            THEN "unhealthy"
            ELSE "healthy"

\* GET /health; getState persists the default state on first access, and
\* throws when the store cannot be reached
Health(reachable, max) ==
    /\ adminNo < max
    /\ adminNo' = adminNo + 1
    /\ IF reachable
       THEN /\ Store(GetState)
            /\ resp' = [req |-> "health", at |-> now, reachable |-> TRUE,
                        status |-> 200,
                        health |-> HealthStatus(GetState, now),
                        durableObjectsAvailable |-> TRUE]
       ELSE /\ UNCHANGED <<hasState, st>>
            /\ resp' = [req |-> "health", at |-> now, reachable |-> FALSE,
                        status |-> 503,
                        health |-> "unhealthy",
                        durableObjectsAvailable |-> FALSE]
    /\ UNCHANGED <<api, env, boot, rl>>
    /\ UNCHANGED <<now, config, pc, loc, extRule, cycleNo, simNo, probes,
                   calls>>

\* GET /status: getState, then the route's catch when it throws
Status(reachable, max) ==
    /\ adminNo < max
    /\ adminNo' = adminNo + 1
    /\ IF reachable
       THEN /\ Store(GetState)
            /\ resp' = [req |-> "status", at |-> now, reachable |-> TRUE,
                        status |-> RouteStatus(StoreStatus("state"))]
       ELSE /\ UNCHANGED <<hasState, st>>
            /\ resp' = [req |-> "status", at |-> now, reachable |-> FALSE,
                        status |-> RouteStatus(503)]
    /\ UNCHANGED <<api, env, boot, rl>>
    /\ UNCHANGED <<now, config, pc, loc, extRule, cycleNo, simNo, probes,
                   calls>>

\* the instants, in milliseconds, at which something happens in SpecHealth
HealthTimes == {0, 500, 120000, 120500, 121000, 241000}

\* time passes
HealthTick ==
    /\ \E t \in HealthTimes : t > now /\ now' = t
    /\ UNCHANGED <<resp, api, env, boot, rl>>
    /\ UNCHANGED <<hasState, st, config, pc, loc, extRule, cycleNo, simNo,
                   adminNo, probes, calls>>

\* ------------------------------------------- store operations failing

\* the store requests a cycle awaits, by the position that makes them
StoreSteps == {"clean", "read", "record", "update", "reset", "apierr", "latch"}

\* mutant: an exception thrown inside the catch block of the
\* updateRedirectRule call leaves handleScheduled
CatchOfInnerOnly(step, caught) ==
    IF step \in {"update", "reset", "apierr"} /\ caught = "none"
    THEN "inner"
    ELSE IF step \in {"apierr", "latch"} THEN "escaped" ELSE "outer"

\* the catch block that receives an exception thrown at a step: the try
\* around the updateRedirectRule call covers updateRedirectRuleState,
\* resetCounters and the incrementApiErrors of a false result; everything
\* else, the statements of that catch block included, is covered by the try
\* around the whole of handleScheduled
CatchOf(step, caught) ==
    IF step \in {"update", "reset", "apierr"} /\ caught = "none"
    THEN "inner"
    ELSE "outer"

\* a store request of the cycle is answered with an error or not at all:
\* the StateManager method throws and the store is left as it was. The inner
\* catch block goes on to incrementApiErrors, the outer one logs and returns
CycleStoreFails(c) ==
    /\ pc[c] \in StoreSteps
    /\ LET k == CatchOf(pc[c], loc[c].caught)
       IN /\ loc' = [loc EXCEPT ![c].caught = k]
          /\ pc' = [pc EXCEPT ![c] = IF k = "inner" THEN "apierr" ELSE "done"]
    /\ UNCHANGED <<resp, api, env, boot, rl>>
    /\ UNCHANGED <<now, hasState, st, config, extRule, cycleNo, simNo,
                   adminNo, probes, calls>>

\* the first store request of a cycle, updateCronExecution, fails
CycleStartFails(c, max) ==
    /\ pc[c] \in {"idle", "done"}
    /\ cycleNo < max
    /\ ~Refused
    /\ boot' = Validate
    /\ cycleNo' = cycleNo + 1
    /\ loc' = [loc EXCEPT ![c] = [InitLoc EXCEPT
                   !.no = cycleNo + 1,
                   !.caught = CatchOf("start", "none")]]
    /\ pc' = [pc EXCEPT ![c] = "done"]
    /\ UNCHANGED <<resp, api, env, rl>>
    /\ UNCHANGED <<now, hasState, st, config, extRule, simNo, adminNo,
                   probes, calls>>

\* ------------------------------------------------- simulate requests

\* POST /simulate-failover (enabled = TRUE), POST /simulate-recovery (FALSE):
\* the counter is forced to the threshold and updateRedirectRule starts
SimStart(p, enabled) ==
    /\ pc[p] \in {"idle", "done"}
    /\ simNo < MaxSims
    /\ Store(IF enabled
             THEN SimulateFailover(GetState, config.failureCountThreshold)
             ELSE SimulateRecovery(GetState, config.recoveryCountThreshold))
    /\ simNo' = simNo + 1
    /\ loc' = [loc EXCEPT ![p] = [InitLoc EXCEPT !.target = enabled]]
    /\ pc' = [pc EXCEPT ![p] = "api"]
    /\ calls' = Append(calls, Call(p, 0, enabled))
    /\ UNCHANGED <<resp, api, env, boot, rl>>
    /\ UNCHANGED <<now, config, extRule, cycleNo, adminNo, probes>>

\* ------------------------------------------------ management requests

\* POST /reset-counters
AdminResetCounters(max) ==
    /\ adminNo < max
    /\ Store(ResetCounters(GetState))
    /\ adminNo' = adminNo + 1
    /\ resp' = [req |-> "reset-counters", status |-> RouteStatus(StoreStatus("reset-counters"))]
    /\ UNCHANGED <<api, env, boot, rl>>
    /\ UNCHANGED <<now, config, pc, loc, extRule, cycleNo, simNo, probes,
                   calls>>

\* POST /maintenance-mode
AdminSetMaintenanceMode(enabled, max) ==
    /\ adminNo < max
    /\ Store(SetMaintenanceMode(GetState, enabled))
    /\ adminNo' = adminNo + 1
    /\ resp' = [req |-> "maintenance-mode", status |-> RouteStatus(StoreStatus("set-maintenance-mode"))]
    /\ UNCHANGED <<api, env, boot, rl>>
    /\ UNCHANGED <<now, config, pc, loc, extRule, cycleNo, simNo, probes,
                   calls>>

\* POST /maintenance-window; the id is a fresh UUID
AdminAddWindow(startTime, endTime, max) ==
    /\ adminNo < max
    /\ Store(AddMaintenanceWindow(GetState,
                 [id |-> adminNo + 1, startTime |-> startTime,
                  endTime |-> endTime]))
    /\ adminNo' = adminNo + 1
    /\ resp' = [req |-> "maintenance-window", status |-> RouteStatus(StoreStatus("add-maintenance-window"))]
    /\ UNCHANGED <<api, env, boot, rl>>
    /\ UNCHANGED <<now, config, pc, loc, extRule, cycleNo, simNo, probes,
                   calls>>

\* DELETE /maintenance-window/{id}
AdminDeleteWindow(id, max) ==
    /\ adminNo < max
    /\ Store(DeleteMaintenanceWindow(GetState, id))
    /\ adminNo' = adminNo + 1
    /\ resp' = [req |-> "delete-maintenance-window", status |-> RouteStatus(StoreStatus("delete-maintenance-window"))]
    /\ UNCHANGED <<api, env, boot, rl>>
    /\ UNCHANGED <<now, config, pc, loc, extRule, cycleNo, simNo, probes,
                   calls>>

\* POST /reset-all-metrics: the store has no handler for the path, answers
\* 404 without reading the state, StateManager.resetAllMetrics throws and the
\* route answers 500
AdminResetAllMetrics(max) ==
    /\ adminNo < max
    /\ StoreStatus("reset-all-metrics") # 200
    /\ adminNo' = adminNo + 1
    /\ resp' = [req |-> "reset-all-metrics",
                status |-> RouteStatus(StoreStatus("reset-all-metrics"))]
    /\ UNCHANGED <<api, env, boot, rl>>
    /\ UNCHANGED <<now, hasState, st, config, pc, loc, extRule, cycleNo,
                   simNo, probes, calls>>

Tick ==
    /\ now < MaxTime
    /\ now' = now + 1
    /\ UNCHANGED <<resp, api, env, boot, rl>>
    /\ UNCHANGED <<hasState, st, config, pc, loc, extRule, cycleNo, simNo,
                   adminNo, probes, calls>>

\* --------------------------------------- updateRedirectRule from inside

\* statuses of the GET and the PUT; 0 stands for fetch rejecting (network
\* error)
ApiStatuses == {200, 401, 403, 500, 0}

\* response.ok
IsOk(status) == status >= 200 /\ status <= 299

\* mutant: only 401 counts as an authentication failure
IsAuthFailureOnly401(status) == status = 401

IsAuthFailure(status) == status = 401 \/ status = 403

\* mutant: the exponent is the attempt number
BackoffMsFromAttempt(attempt) == (2 ^ attempt) * 1000

\* Math.pow(2, attempt - 1) * 1000
BackoffMs(attempt) == (2 ^ (attempt - 1)) * 1000

\* rulesetData.result.rules.map(rule => ({...rule, enabled}))
SetEnabled(rules, enabled) ==
    [i \in DOMAIN rules |-> [rules[i] EXCEPT !.enabled = enabled]]

\* the rulesets the API may hold: 1..MaxRules rules, each enabled or not
Rulesets ==
    UNION {[1..n -> BOOLEAN] : n \in 1..MaxRules}

RulesOf(flags) == [i \in DOMAIN flags |-> [id |-> i, enabled |-> flags[i]]]

\* the catch block for an error other than AUTHENTICATION_FAILED: back off
\* before the next attempt, or leave the loop and return false
AfterError(a) ==
    IF a.attempt < MaxAttempts
    THEN [a EXCEPT !.pc = "backoff"]
    ELSE [a EXCEPT !.pc = "returned", !.result = "false"]

\* a response that is not ok, or a rejected fetch
AfterFailure(a, status) ==
    IF IsAuthFailure(status)
    THEN [a EXCEPT !.pc = "returned", !.result = "auth"]
    ELSE AfterError(a)

Logged(a, method, status) ==
    [a EXCEPT !.log = Append(@, [method |-> method, status |-> status,
                                 attempt |-> a.attempt])]

\* no updateRedirectRule call under way
InitApi ==
    [pc |-> "idle", callNo |-> 0, attempt |-> 0, enabled |-> FALSE,
     remote |-> <<>>, fetched |-> <<>>, body |-> <<>>, log |-> <<>>,
     delays |-> <<>>, result |-> "none"]

nonApi == <<now, hasState, st, config, pc, loc, extRule, cycleNo, simNo,
            adminNo, probes, calls, resp, env, boot, rl>>

\* updateRedirectRule(ruleId, enabled) is called
RetryCall(enabled) ==
    /\ api.pc \in {"idle", "returned"}
    /\ api.callNo < RetryMaxCalls
    /\ api' = [InitApi EXCEPT !.remote = api.remote,
                              !.callNo = api.callNo + 1,
                              !.pc = "get",
                              !.attempt = 1,
                              !.enabled = enabled]
    /\ UNCHANGED nonApi

\* the GET of the ruleset
RetryGet ==
    /\ api.pc = "get"
    /\ \E status \in ApiStatuses :
        LET a == Logged(api, "GET", status)
        IN api' = IF IsOk(status)
                  THEN [a EXCEPT !.fetched = api.remote, !.pc = "put"]
                  ELSE AfterFailure(a, status)
    /\ UNCHANGED nonApi

\* the PUT of the modified ruleset
RetryPut ==
    /\ api.pc = "put"
    /\ \E status \in ApiStatuses :
        LET body == SetEnabled(api.fetched, api.enabled)
            a == [Logged(api, "PUT", status) EXCEPT !.body = body]
        IN api' = IF IsOk(status)
                  THEN [a EXCEPT !.remote = body, !.pc = "returned",
                                 !.result = "true"]
                  ELSE AfterFailure(a, status)
    /\ UNCHANGED nonApi

\* setTimeout(resolve, backoffMs), then the next iteration
RetryBackoff ==
    /\ api.pc = "backoff"
    /\ api' = [api EXCEPT !.delays = Append(@, BackoffMs(api.attempt)),
                          !.attempt = @ + 1,
                          !.pc = "get"]
    /\ UNCHANGED nonApi

\* ------------------------------------------------------ the rate limiter

\* the addresses requests come from
IPs == {"a", "b"}

\* RateLimiter constructor: windowMs
WindowMs == WindowMinutes * 60 * MsPerSecond

\* an address without an entry in RateLimiter.requests
NoEntry == [count |-> 0, resetTime |-> NoTime]

\* mutant: the window ends just before its resetTime
ExpiredAtReset(entry, t) == t >= entry.resetTime

\* now > entry.resetTime
Expired(entry, t) == t > entry.resetTime

\* RateLimiter.cleanup: expired entries are deleted
Cleanup(requests, t) ==
    [ip \in IPs |-> IF requests[ip] # NoEntry /\ Expired(requests[ip], t)
                    THEN NoEntry
                    ELSE requests[ip]]

\* Math.ceil((entry.resetTime - now) / 1000)
RetryAfter(entry, t) == (entry.resetTime - t + MsPerSecond - 1) \div MsPerSecond

\* RateLimiter.check(ip) at time t; clean is whether Math.random() < 0.01.
\* The entry is read before the cleanup.
Check(requests, ip, t, clean) ==
    LET entry == requests[ip]
        kept == IF clean THEN Cleanup(requests, t) ELSE requests
    IN  IF entry = NoEntry \/ Expired(entry, t)
        THEN [requests |-> [kept EXCEPT ![ip] = [count |-> 1,
                                                 resetTime |-> t + WindowMs]],
              allowed |-> TRUE,
              retryAfter |-> NoTime]
        ELSE IF entry.count >= MaxRequests
        THEN [requests |-> kept,
              allowed |-> FALSE,
              retryAfter |-> RetryAfter(entry, t)]
        ELSE [requests |-> [kept EXCEPT ![ip].count = @ + 1],
              allowed |-> TRUE,
              retryAfter |-> NoTime]

\* the answers seen so far for one address: when the window the last call
\* fell in was opened, and how many calls in it were allowed
NoWindow == [opened |-> NoTime, allowed |-> 0]

InWindow(w, t) == w.opened # NoTime /\ t <= w.opened + WindowMs

Seen(w, t, allowed) ==
    IF InWindow(w, t)
    THEN [w EXCEPT !.allowed = @ + (IF allowed THEN 1 ELSE 0)]
    ELSE [opened |-> t, allowed |-> IF allowed THEN 1 ELSE 0]

\* new RateLimiter(60, 1)
InitRl ==
    [requests |-> [ip \in IPs |-> NoEntry],
     seen |-> [ip \in IPs |-> NoWindow],
     last |-> [ip |-> "none", at |-> NoTime, allowed |-> TRUE,
               retryAfter |-> NoTime]]

\* rateLimitMiddleware: one request from ip
RateCheck(ip, clean) ==
    /\ LET r == Check(rl.requests, ip, now, clean)
       IN  rl' = [requests |-> r.requests,
                  seen |-> [rl.seen EXCEPT ![ip] = Seen(@, now, r.allowed)],
                  last |-> [ip |-> ip, at |-> now, allowed |-> r.allowed,
                            retryAfter |-> r.retryAfter]]
    /\ UNCHANGED <<now, hasState, st, config, pc, loc, extRule, cycleNo,
                   simNo, adminNo, probes, calls, resp, api, env, boot>>

\* the times requests arrive at
RateTimes == {0, 60000, 60001}

\* time passes
RateTick ==
    /\ \E t \in RateTimes : t > now /\ now' = t
    /\ UNCHANGED <<hasState, st, config, pc, loc, extRule, cycleNo, simNo,
                   adminNo, probes, calls, resp, api, env, boot, rl>>

\* ------------------------------------------------------ specifications

InitWith(maxFailure, maxRecovery) ==
    /\ now = 0
    /\ hasState = FALSE
    /\ st = DefaultState(0)
    /\ config \in [failureCountThreshold : 1..maxFailure,
                   recoveryCountThreshold : 1..maxRecovery]
    /\ pc = [p \in Procs |-> "idle"]
    /\ loc = [p \in Procs |-> InitLoc]
    /\ extRule = FALSE
    /\ cycleNo = 0
    /\ simNo = 0
    /\ adminNo = 0
    /\ probes = <<>>
    /\ calls = <<>>
    /\ resp = [req |-> "none", status |-> 0]
    /\ api = InitApi
    /\ env = "any"
    /\ boot = InitBoot(EnvOf(config))
    /\ rl = InitRl

\* the steps of one cycle
CycleStep(c, max) ==
    \/ CycleStart(c, max)
    \/ CycleClean(c)
    \/ CycleRead(c)
    \/ CycleProbe(c)
    \/ CycleRecord(c)
    \/ ApiDone(c)
    \/ RecordUpdate(c)
    \/ RecordReset(c)
    \/ RecordApiError(c)
    \/ CycleLatch(c)

\* the steps of one simulate request
SimStep(p) ==
    \/ \E enabled \in BOOLEAN : SimStart(p, enabled)
    \/ ApiDone(p)
    \/ RecordUpdate(p)
    \/ RecordReset(p)
    \/ RecordApiError(p)

\* Spec: one timer cycle at a time next to simulate requests and the
\* management requests for counters and maintenance mode
Init == InitWith(MaxThreshold, MaxThreshold)

Next ==
    \/ CycleStep("c1", MaxCycles)
    \/ SimStep("s1")
    \/ AdminResetCounters(MaxAdminOps)
    \/ AdminResetAllMetrics(MaxAdminOps)
    \/ \E enabled \in BOOLEAN : AdminSetMaintenanceMode(enabled, MaxAdminOps)

Spec == Init /\ [][Next]_vars

\* SpecSeq: timer cycles only, one after the other
InitSeq == InitWith(SeqMaxFailureThreshold, SeqMaxRecoveryThreshold)

NextSeq == CycleStep("c1", SeqMaxCycles)

SpecSeq == InitSeq /\ [][NextSeq]_vars

\* SpecWin: one timer cycle at a time, the clock, maintenance mode and
\* maintenance windows
NextWin ==
    \/ CycleStep("c1", WinMaxCycles)
    \/ \E enabled \in BOOLEAN :
           AdminSetMaintenanceMode(enabled, WinMaxAdminOps)
    \/ \E s \in 0..MaxTime : \E e \in 0..MaxTime :
           AdminAddWindow(s, e, WinMaxAdminOps)
    \/ \E id \in 1..WinMaxAdminOps : AdminDeleteWindow(id, WinMaxAdminOps)
    \/ Tick

SpecWin == Init /\ [][NextWin]_vars

\* SpecHist: the store's update-redirect-rule-state requests alone, each
\* toggling the rule, and the clock
HistUpdate(enabled) ==
    /\ GetState.redirectRuleChangesTotal < HistMaxOps
    /\ enabled # GetState.redirectRuleEnabled
    /\ Store(UpdateRedirectRuleState(GetState, now, enabled,
                                     Reason("s1", enabled)))
    /\ UNCHANGED <<resp, api, env, boot, rl>>
    /\ UNCHANGED <<now, config, pc, loc, extRule, cycleNo, simNo, adminNo,
                   probes, calls>>

NextHist ==
    \/ \E enabled \in BOOLEAN : HistUpdate(enabled)
    \/ Tick

SpecHist == Init /\ [][NextHist]_vars

\* SpecRetry: updateRedirectRule calls alone; a request that was sent gets
\* an answer or an error and a timer that was set fires
InitRetry ==
    /\ now = 0
    /\ hasState = FALSE
    /\ st = DefaultState(0)
    /\ config \in [failureCountThreshold : {1}, recoveryCountThreshold : {1}]
    /\ pc = [p \in Procs |-> "idle"]
    /\ loc = [p \in Procs |-> InitLoc]
    /\ extRule = FALSE
    /\ cycleNo = 0
    /\ simNo = 0
    /\ adminNo = 0
    /\ probes = <<>>
    /\ calls = <<>>
    /\ resp = [req |-> "none", status |-> 0]
    /\ env = "any"
    /\ boot = InitBoot(EnvOf(config))
    /\ rl = InitRl
    /\ \E flags \in Rulesets : api = [InitApi EXCEPT !.remote = RulesOf(flags)]

NextRetry ==
    \/ \E enabled \in BOOLEAN : RetryCall(enabled)
    \/ RetryGet
    \/ RetryPut
    \/ RetryBackoff

SpecRetry ==
    InitRetry /\ [][NextRetry]_vars
        /\ WF_vars(RetryGet) /\ WF_vars(RetryPut) /\ WF_vars(RetryBackoff)

\* SpecLive: timer cycles one after the other for as long as the scheduler
\* fires them. The monitored target answers anything at first (env = "any")
\* and from some point on only unhealthy ("allU") or only healthy ("allH");
\* from that point maintenance is off, the latch is not set and
\* updateRedirectRule returns false at most LiveMaxFailures times in all.
InitLive == InitWith(LiveMaxThreshold, LiveMaxThreshold)

FailedCalls ==
    Cardinality({i \in DOMAIN calls : calls[i].outcome = "failure"})

\* the target settles
EnvSettle(e) ==
    /\ env = "any"
    /\ ~GetState.apiCallsDisabled
    /\ ~GetState.maintenanceMode
    /\ pc["c1"] # "latch"
    /\ env' = e
    /\ UNCHANGED <<now, hasState, st, config, pc, loc, extRule, cycleNo,
                   simNo, adminNo, probes, calls, resp, api, boot, rl>>

\* what the settled target and the rule-management API answer
LiveEnv ==
    /\ (env = "allU" /\ probes' # probes) => ~probes'[Len(probes')]
    /\ (env = "allH" /\ probes' # probes) => probes'[Len(probes')]
    /\ env # "any" =>
         \A i \in DOMAIN calls :
            (calls[i].outcome = "pending" /\ calls'[i].outcome # "pending")
            => \/ calls'[i].outcome = "success"
               \/ /\ calls'[i].outcome = "failure"
                  /\ FailedCalls < LiveMaxFailures

\* cycles the scheduler may start: enough after the target settles for a
\* threshold to be reached and every failed call to be retried
LiveCycleMax ==
    IF env = "any"
    THEN LiveMaxCycles
    ELSE LiveMaxCycles + LiveMaxThreshold + LiveMaxFailures

LiveCycle == CycleStep("c1", LiveCycleMax) /\ LiveEnv

NextLive ==
    \/ LiveCycle
    \/ /\ env = "any"
       /\ \E enabled \in BOOLEAN :
              AdminSetMaintenanceMode(enabled, LiveMaxAdminOps)
    \/ \E e \in {"allU", "allH"} : EnvSettle(e)

SpecLive == InitLive /\ [][NextLive]_vars /\ WF_vars(LiveCycle)

\* SpecFail: timer cycles one after the other whose store requests may fail
FailCycle ==
    \/ CycleStep("c1", FailMaxCycles)
    \/ CycleStoreFails("c1")
    \/ CycleStartFails("c1", FailMaxCycles)

SpecFail == Init /\ [][FailCycle]_vars /\ WF_vars(FailCycle)

\* SpecConf: timer cycles of a worker deployed with a well-formed
\* environment or with one whose value of one variable is not
NumberTexts ==
    {Text("empty", 0), Text("junk", 0), Text("int", -1), Text("int", 0),
     Text("int", 1), Text("intjunk", 2), Text("int", 30), Text("int", 31)}

ConfEnvs(e) ==
    {e}
    \cup {[e EXCEPT !.MONITOR_URL = v] : v \in {"", "not-a-url", "http://site"}}
    \cup {[e EXCEPT !.FAILURE_COUNT_THRESHOLD = v] : v \in NumberTexts}
    \cup {[e EXCEPT !.RECOVERY_COUNT_THRESHOLD = v] : v \in NumberTexts}
    \cup {[e EXCEPT !.TIMEOUT_SECONDS = v] : v \in NumberTexts}
    \cup {[e EXCEPT !.REDIRECT_RULE_ID = ""], [e EXCEPT !.ACCOUNT_ID = ""],
          [e EXCEPT !.ZONE_ID = ""], [e EXCEPT !.CLOUDFLARE_API_TOKEN = ""],
          [e EXCEPT !.API_TOKEN = ""]}
    \cup {[e EXCEPT !.LOG_LEVEL = v] : v \in {"", "WARN", "verbose"}}

InitConf ==
    /\ now = 0
    /\ hasState = FALSE
    /\ st = DefaultState(0)
    /\ \E base \in [failureCountThreshold : 1..ConfMaxThreshold,
                    recoveryCountThreshold : 1..ConfMaxThreshold] :
       \E e \in ConfEnvs(EnvOf(base)) :
          /\ boot = InitBoot(e)
          /\ rl = InitRl
          /\ config = IF IsValid(e) THEN ValidateEnvironment(e) ELSE base
    /\ pc = [p \in Procs |-> "idle"]
    /\ loc = [p \in Procs |-> InitLoc]
    /\ extRule = FALSE
    /\ cycleNo = 0
    /\ simNo = 0
    /\ adminNo = 0
    /\ probes = <<>>
    /\ calls = <<>>
    /\ resp = [req |-> "none", status |-> 0]
    /\ api = InitApi
    /\ env = "any"

NextConf == CycleStep("c1", ConfMaxCycles)

SpecConf == InitConf /\ [][NextConf]_vars

\* SpecHealth: GET /health next to timer cycles, with the clock in
\* milliseconds
NextHealth ==
    \/ CycleStep("c1", HealthMaxCycles)
    \/ \E reachable \in BOOLEAN : Health(reachable, HealthMaxRequests)
    \/ \E reachable \in BOOLEAN : Status(reachable, HealthMaxRequests)
    \/ HealthTick

InitHealth == InitWith(ConfMaxThreshold, ConfMaxThreshold)

SpecHealth == InitHealth /\ [][NextHealth]_vars

\* SpecRate: requests from two addresses passing the rate limiter
InitRate == InitWith(1, 1)

NextRate ==
    \/ \E ip \in IPs : \E clean \in BOOLEAN : RateCheck(ip, clean)
    \/ RateTick

SpecRate == InitRate /\ [][NextRate]_vars

\* SpecSim: timer cycles and simulate requests served one after the other
NextSim ==
    \/ pc["s1"] \in {"idle", "done"} /\ CycleStep("c1", SimMaxCycles)
    \/ pc["c1"] \in {"idle", "done"} /\ SimStep("s1")

SpecSim == Init /\ [][NextSim]_vars

\* SpecSup: timer cycles while maintenance mode is switched on and off
NextSup ==
    \/ CycleStep("c1", SupMaxCycles)
    \/ \E enabled \in BOOLEAN :
           AdminSetMaintenanceMode(enabled, SupMaxAdminOps)

SpecSup == Init /\ [][NextSup]_vars

\* ---------------------------------------------------------------- claims

\* some process starts an updateRedirectRule call in this step
CallStarts == \E p \in Procs : pc[p] # "api" /\ pc'[p] = "api"

\* every call logged so far is pending or has succeeded
CallsSucceed ==
    \A i \in DOMAIN calls : calls[i].outcome \in {"pending", "success"}

\* cycles of c1 that have passed their record step
Recorded ==
    IF pc["c1"] \in {"clean", "read", "probe", "record"}
    THEN cycleNo - 1 ELSE cycleNo

\* C1: in every reachable state of the persisted MonitorState the failure
\* counter or the recovery counter is zero, whatever store operations the
\* cycle, the simulate requests and the reset requests have issued.
C1_CountersExclusive == st.failureCount = 0 \/ st.recoveryCount = 0

\* a failure was recorded after a success, after a simulated transition
C1_Witness ==
    /\ st.failureCount > 0
    /\ st.successesTotal > 0
    /\ Len(st.redirectRuleHistory) > 0

\* C2: with failure threshold N, from the fresh state, without suppression,
\* with cycles one after the other and every Rule Controller call
\* succeeding, a run of Unhealthy probes produces no enable call before the
\* N-th cycle has recorded its probe and exactly one call, an enable issued
\* by cycle N, from then on (so none in cycle N+1 or later).
C2_ThresholdEdge ==
    ((\A i \in DOMAIN probes : ~probes[i]) /\ CallsSucceed
        /\ ~st.maintenanceMode)
    => /\ Len(calls) =
             (IF Recorded >= config.failureCountThreshold THEN 1 ELSE 0)
       /\ \A i \in DOMAIN calls :
             /\ calls[i].enabled
             /\ calls[i].by = "c1"
             /\ calls[i].no = config.failureCountThreshold

\* threshold 3, four Unhealthy cycles completed, the call having succeeded
C2_Witness ==
    /\ config.failureCountThreshold = 3
    /\ probes = <<FALSE, FALSE, FALSE, FALSE>>
    /\ pc["c1"] = "done"
    /\ Len(calls) = 1
    /\ calls[1].outcome = "success"
    /\ calls[1].no = 3

\* C3: with thresholds failure=3, recovery=2, from the fresh state and with
\* the Rule Controller succeeding, after the cycles probing [U,U,U] there is
\* one enable call, a history of one entry {enabled, failureCount 3,
\* recoveryCount 0}, redirectRuleEnabled is true and the counters are (0,0);
\* after [U,U,U,H,H] there is one disable call more, a history of two entries
\* with the newest disabled, redirectRuleEnabled is false and the counters
\* are (0,0).
C3_Scenario ==
    (/\ config.failureCountThreshold = 3
     /\ config.recoveryCountThreshold = 2
     /\ CallsSucceed
     /\ pc["c1"] = "done")
    => /\ probes = <<FALSE, FALSE, FALSE>> =>
             /\ Len(calls) = 1
             /\ calls[1].enabled /\ calls[1].no = 3
             /\ Len(st.redirectRuleHistory) = 1
             /\ st.redirectRuleHistory[1].event = "enabled"
             /\ st.redirectRuleHistory[1].failureCount = 3
             /\ st.redirectRuleHistory[1].recoveryCount = 0
             /\ st.redirectRuleEnabled
             /\ st.failureCount = 0 /\ st.recoveryCount = 0
       /\ probes = <<FALSE, FALSE, FALSE, TRUE, TRUE>> =>
             /\ Len(calls) = 2
             /\ calls[1].enabled /\ calls[1].no = 3
             /\ ~calls[2].enabled /\ calls[2].no = 5
             /\ Len(st.redirectRuleHistory) = 2
             /\ st.redirectRuleHistory[1].event = "disabled"
             /\ st.redirectRuleHistory[2].event = "enabled"
             /\ ~st.redirectRuleEnabled
             /\ st.failureCount = 0 /\ st.recoveryCount = 0

\* the scenario has run to its end
C3_Witness ==
    /\ config.failureCountThreshold = 3
    /\ config.recoveryCountThreshold = 2
    /\ CallsSucceed
    /\ pc["c1"] = "done"
    /\ probes = <<FALSE, FALSE, FALSE, TRUE, TRUE>>
    /\ extRule = FALSE

\* C4: a cycle that found maintenance mode on or a window active when it
\* read the state records its probe (consecutive counter and cumulative
\* totals updated) and then ends: it starts no Rule Controller call, appends
\* no history entry and leaves redirectRuleEnabled unchanged, also when the
\* counter reaches or exceeds the threshold against the opposite rule state.
C4_SuppressedCycle ==
    [][(pc["c1"] = "record" /\ pc'["c1"] # "record"
            /\ loc["c1"].maintenanceModeActive)
       => /\ pc'["c1"] = "done"
          /\ calls' = calls
          /\ extRule' = extRule
          /\ st'.redirectRuleHistory = st.redirectRuleHistory
          /\ st'.redirectRuleEnabled = st.redirectRuleEnabled
          /\ st'.redirectRuleChangesTotal = st.redirectRuleChangesTotal
          /\ st'.healthChecksTotal = st.healthChecksTotal + 1
          /\ IF loc["c1"].isHealthy
             THEN /\ st'.recoveryCount = st.recoveryCount + 1
                  /\ st'.failureCount = 0
                  /\ st'.successesTotal = st.successesTotal + 1
             ELSE /\ st'.failureCount = st.failureCount + 1
                  /\ st'.recoveryCount = 0
                  /\ st'.failuresTotal = st.failuresTotal + 1]_vars

\* a cycle suppressed by a window alone went past the failure threshold with
\* the rule disabled, and ended without a call
C4_Witness ==
    /\ pc["c1"] = "done"
    /\ loc["c1"].maintenanceModeActive
    /\ ~st.maintenanceMode
    /\ ~loc["c1"].isHealthy
    /\ ~loc["c1"].redirectRuleEnabled
    /\ loc["c1"].newCount > config.failureCountThreshold
    /\ adminNo = 1
    /\ Len(st.scheduledMaintenanceWindows) = 1
    /\ calls = <<>>

\* C5: no Rule Controller update call is started, by any operation, in a
\* state where the persisted maintenanceMode is true or a window is active.
C5_NoCallDuringMaintenance ==
    [][CallStarts => ~MaintenanceModeActive(GetState, now)]_vars

\* C6: a cycle whose Rule Controller call ended with AUTHENTICATION_FAILED
\* has set apiCallsDisabled when it ends; a cycle that starts with the latch
\* persisted gets no further than its state read and changes neither the
\* consecutive counters nor the cumulative totals nor lastCheckTime, probes
\* nothing and starts no Rule Controller call.
C6_FailClosedLatch ==
    /\ [](/\ (pc["c1"] = "done" /\ loc["c1"].outcome = "auth")
                => st.apiCallsDisabled
          /\ loc["c1"].latchedAtStart
                => pc["c1"] \in {"clean", "read", "done"})
    /\ [][(pc'["c1"] # pc["c1"] /\ loc'["c1"].latchedAtStart)
          => /\ probes' = probes
             /\ calls' = calls
             /\ extRule' = extRule
             /\ st'.failureCount = st.failureCount
             /\ st'.recoveryCount = st.recoveryCount
             /\ st'.healthChecksTotal = st.healthChecksTotal
             /\ st'.successesTotal = st.successesTotal
             /\ st'.failuresTotal = st.failuresTotal
             /\ st'.redirectRuleChangesTotal = st.redirectRuleChangesTotal
             /\ st'.apiErrorsTotal = st.apiErrorsTotal
             /\ st'.lastCheckTime = st.lastCheckTime]_vars

\* the first cycle's call failed authentication, the second cycle started
\* with the latch set and has ended
C6_Witness ==
    /\ \E i \in DOMAIN calls :
          /\ calls[i].by = "c1" /\ calls[i].no = 1
          /\ calls[i].outcome = "auth"
    /\ loc["c1"].no = 2
    /\ loc["c1"].latchedAtStart
    /\ pc["c1"] = "done"
    /\ st.apiCallsDisabled

\* C7: once apiCallsDisabled is true in the persisted state it stays true
\* under every store operation.
C7_LatchMonotonic ==
    [][st.apiCallsDisabled => st'.apiCallsDisabled]_vars

\* the latch is set, a later cycle ran under it, and a simulated transition
\* and management requests have been recorded
C7_Witness ==
    /\ st.apiCallsDisabled
    /\ loc["c1"].latchedAtStart
    /\ pc["c1"] = "done"
    /\ pc["s1"] = "done"
    /\ loc["s1"].outcome = "success"
    /\ adminNo = MaxAdminOps

\* C8: no Rule Controller update call is started, by any operation, in a
\* state where the persisted apiCallsDisabled is true.
C8_NoCallWhenLatched ==
    [][CallStarts => ~GetState.apiCallsDisabled]_vars

\* C9: redirectRuleHistory has at most 50 entries with timestamps
\* non-increasing from index 1; a transition recorded on a full history puts
\* the new entry first and drops exactly the oldest entry.
C9_HistoryCapped ==
    /\ [](/\ Len(st.redirectRuleHistory) <= HistoryCap
          /\ \A i \in 1..(Len(st.redirectRuleHistory) - 1) :
                st.redirectRuleHistory[i].timestamp
                    >= st.redirectRuleHistory[i + 1].timestamp)
    /\ [][(st'.redirectRuleChangesTotal # st.redirectRuleChangesTotal
              /\ Len(st.redirectRuleHistory) = HistoryCap)
          => /\ Len(st'.redirectRuleHistory) = HistoryCap
             /\ st'.redirectRuleHistory[1].timestamp = now
             /\ st'.redirectRuleHistory[1].event =
                   (IF st'.redirectRuleEnabled THEN "enabled" ELSE "disabled")
             /\ \A i \in 2..HistoryCap :
                   st'.redirectRuleHistory[i] = st.redirectRuleHistory[i - 1]
         ]_vars

\* transitions have been recorded on a full history that spans several
\* clock values
C9_Witness ==
    /\ Len(st.redirectRuleHistory) = HistoryCap
    /\ st.redirectRuleChangesTotal > HistoryCap + 1
    /\ st.redirectRuleHistory[1].timestamp
           > st.redirectRuleHistory[HistoryCap].timestamp

\* C10: in an execution of timer cycles only, none of the five cumulative
\* totals ever decreases from one state to the next.
C10_TotalsMonotonic ==
    [][/\ st'.healthChecksTotal >= st.healthChecksTotal
       /\ st'.successesTotal >= st.successesTotal
       /\ st'.failuresTotal >= st.failuresTotal
       /\ st'.redirectRuleChangesTotal >= st.redirectRuleChangesTotal
       /\ st'.apiErrorsTotal >= st.apiErrorsTotal]_vars

\* a reset-counters request reaches the store in this step: from a cycle or
\* a simulate request after a transition, or from POST /reset-counters
ResetCountersStep ==
    \/ \E p \in Procs : pc[p] = "reset" /\ pc'[p] = "done"
    \/ adminNo' # adminNo /\ resp'.req = "reset-counters"

\* C11: the reset-counters operation sets failureCount and recoveryCount to
\* 0 and leaves every other field of the state unchanged (the five
\* cumulative totals, redirectRuleEnabled, the history, the maintenance
\* state, the windows and the latch).
C11_ResetCountersFrame ==
    [][ResetCountersStep
       => st' = [GetState EXCEPT !.failureCount = 0,
                                 !.recoveryCount = 0]]_vars

\* C12: a reset-all-metrics request succeeds and leaves the state with the
\* consecutive counters and the five cumulative totals at 0 and every other
\* field unchanged.
C12_ResetAllMetrics ==
    [][(adminNo' # adminNo /\ resp'.req = "reset-all-metrics")
       => /\ resp'.status = 200
          /\ st' = [GetState EXCEPT !.failureCount = 0,
                                    !.recoveryCount = 0,
                                    !.healthChecksTotal = 0,
                                    !.successesTotal = 0,
                                    !.failuresTotal = 0,
                                    !.redirectRuleChangesTotal = 0,
                                    !.apiErrorsTotal = 0]]_vars

\* ---- updateRedirectRule

\* attempt k of the call under way ended in an error that is not an
\* authentication failure
AttemptFailed(k) ==
    \E i \in DOMAIN api.log :
        /\ api.log[i].attempt = k
        /\ api.log[i].status \notin {200, 401, 403}

\* attempt k of the call under way had both requests answered 200
AttemptSucceeded(k) ==
    \E i \in DOMAIN api.log :
        /\ api.log[i].attempt = k
        /\ api.log[i].method = "PUT"
        /\ api.log[i].status = 200

RetryBounded ==
    /\ api.attempt <= 3
    /\ api.pc # "idle" =>
         /\ Len(api.delays) = api.attempt - 1
         /\ \A k \in DOMAIN api.delays : AttemptFailed(k)
    /\ Len(api.delays) >= 1 => api.delays[1] = 1000
    /\ Len(api.delays) >= 2 => api.delays[2] = 2000
    /\ (AttemptFailed(1) /\ AttemptFailed(2) /\ AttemptSucceeded(3))
         => /\ api.pc = "returned"
            /\ api.result = "true"
            /\ api.delays = <<1000, 2000>>
    /\ (AttemptFailed(1) /\ AttemptFailed(2) /\ AttemptFailed(3))
         => /\ api.pc = "returned"
            /\ api.result = "false"
            /\ api.delays = <<1000, 2000>>

C14_AuthShortCircuit ==
    \A i \in DOMAIN api.log :
        api.log[i].status \in {401, 403}
        => /\ i = Len(api.log)
           /\ api.pc = "returned"
           /\ api.result = "auth"
           /\ Len(api.delays) = api.log[i].attempt - 1

C14_Witness ==
    /\ api.pc = "returned"
    /\ api.result = "auth"
    /\ api.attempt = 3
    /\ api.log[Len(api.log)] = [method |-> "PUT", status |-> 403, attempt |-> 3]
    /\ api.delays = <<1000, 2000>>

\* C15: the collection re-submitted by updateRedirectRule is the fetched
\* collection with the enabled flag of one rule, the target, set to the
\* requested value; every other rule is re-submitted as it was fetched.
C15_OnlyTargetRuleChanged ==
    api.body # <<>>
    => \E t \in DOMAIN api.fetched :
        api.body = [i \in DOMAIN api.fetched |->
                       IF i = t
                       THEN [api.fetched[i] EXCEPT !.enabled = api.enabled]
                       ELSE api.fetched[i]]

\* ---- liveness

\* C16: once every probe is unhealthy, with the latch not set, no maintenance
\* and updateRedirectRule eventually returning true, the timer cycles
\* eventually record the redirect rule as enabled and the rule is enabled at
\* the rule-management API.
C16_EventualFailover ==
    (env = "allU") ~> (st.redirectRuleEnabled /\ extRule)

C16_Witness ==
    /\ env = "allU"
    /\ FailedCalls >= 1
    /\ st.redirectRuleEnabled
    /\ extRule
    /\ st.redirectRuleHistory # <<>>
    /\ st.redirectRuleHistory[1].event = "enabled"

\* C17: once every probe is healthy, with the latch not set, no maintenance
\* and updateRedirectRule eventually returning true, the timer cycles
\* eventually record the redirect rule as disabled and the rule is disabled
\* at the rule-management API.
C17_EventualRecovery ==
    (env = "allH") ~> (~st.redirectRuleEnabled /\ ~extRule)

C17_Witness ==
    /\ env = "allH"
    /\ ~st.redirectRuleEnabled
    /\ ~extRule
    /\ Len(st.redirectRuleHistory) >= 2
    /\ st.redirectRuleHistory[1].event = "disabled"
    /\ probes[Len(probes)]

\* ---- transitions

\* C18: no two adjacent entries of redirectRuleHistory have the same event.
C18_NoRedundantTransitions ==
    \A i \in 1..(Len(GetState.redirectRuleHistory) - 1) :
        GetState.redirectRuleHistory[i].event
            # GetState.redirectRuleHistory[i + 1].event

\* the cycle c records its probe in this step
RecordStep(c) == pc[c] = "record" /\ pc'[c] # "record"

\* C19: a cycle that records a Healthy probe while redirectRuleEnabled is
\* false starts no updateRedirectRule call, whatever recoveryCount is, and
\* neither does a cycle that records an Unhealthy probe while
\* redirectRuleEnabled is true.
C19_SameStateNoCall ==
    [][\A c \in Cycles :
         (/\ RecordStep(c)
          /\ loc[c].isHealthy = ~GetState.redirectRuleEnabled)
         => /\ pc'[c] = "done"
            /\ calls' = calls]_vars

\* three Healthy cycles with the rule disabled and recovery threshold 1: the
\* count is above the threshold and no call was made
C19_Witness ==
    /\ config.recoveryCountThreshold = 1
    /\ probes = <<TRUE, TRUE, TRUE>>
    /\ pc["c1"] = "done"
    /\ st.recoveryCount = 3
    /\ ~st.redirectRuleEnabled
    /\ calls = <<>>

\* the probes so far are k Unhealthy ones followed by one Healthy one
UnhealthyThenHealthy(k) ==
    /\ Len(probes) = k + 1
    /\ \A i \in 1..k : ~probes[i]
    /\ probes[k + 1]

\* C20: recording a success sets failureCount to 0 and adds 1 to
\* recoveryCount, recording a failure sets recoveryCount to 0 and adds 1 to
\* failureCount, whether or not a threshold is reached; after k >= 1 Unhealthy
\* probes below the failure threshold and one Healthy probe the counters are
\* (0, 1).
C20_HysteresisReset ==
    /\ [][\A c \in Cycles :
            RecordStep(c)
            => IF loc[c].isHealthy
               THEN /\ st'.failureCount = 0
                    /\ st'.recoveryCount = GetState.recoveryCount + 1
               ELSE /\ st'.recoveryCount = 0
                    /\ st'.failureCount = GetState.failureCount + 1]_vars
    /\ [](\A k \in 1..SeqMaxCycles :
            (/\ UnhealthyThenHealthy(k)
             /\ k < config.failureCountThreshold
             /\ pc["c1"] = "done")
            => /\ st.failureCount = 0
               /\ st.recoveryCount = 1)

\* two Unhealthy probes below threshold 3, then a Healthy one
C20_Witness ==
    /\ config.failureCountThreshold = 3
    /\ UnhealthyThenHealthy(2)
    /\ pc["c1"] = "done"
    /\ st.failureCount = 0
    /\ st.recoveryCount = 1

\* ---- the probe

C22_NeverThrows ==
    /\ [](\A c \in Cycles : loc[c].caught # "escaped")
    /\ [](pc["c1"] \notin {"idle", "done"} => <>(pc["c1"] = "done"))
    /\ [][\A c \in Cycles :
            (pc[c] = "done" /\ pc'[c] = "clean")
            => loc'[c] = [InitLoc EXCEPT
                             !.no = cycleNo + 1,
                             !.latchedAtStart = GetState.apiCallsDisabled]]_vars

\* the first cycle failed in the catch block of its updateRedirectRule call;
\* the second one ran to its end and recorded its probe
C22_Witness ==
    /\ cycleNo = 2
    /\ pc["c1"] = "done"
    /\ loc["c1"].caught = "none"
    /\ Len(probes) = 2
    /\ Len(calls) >= 1
    /\ calls[1].no = 1
    /\ calls[1].outcome = "auth"
    /\ ~st.apiCallsDisabled
    /\ st.healthChecksTotal = 2

\* ---- configuration

\* a required value is missing, the monitor URL is not an https URL, a
\* threshold is not a positive number or the timeout is not within 1..30
BadEnvironment(e) ==
    \/ e.MONITOR_URL # "https://site"
    \/ \E v \in {e.FAILURE_COUNT_THRESHOLD, e.RECOVERY_COUNT_THRESHOLD} :
          v.kind \in {"empty", "junk"} \/ v.n <= 0
    \/ e.TIMEOUT_SECONDS.kind \in {"empty", "junk"}
    \/ e.TIMEOUT_SECONDS.n < 1
    \/ e.TIMEOUT_SECONDS.n > 30
    \/ "" \in {e.REDIRECT_RULE_ID, e.ACCOUNT_ID, e.ZONE_ID,
               e.CLOUDFLARE_API_TOKEN, e.API_TOKEN}

\* C23: with an environment that fails validation no cycle makes a store
\* request, a probe or an updateRedirectRule call; once a validation has
\* succeeded, later cycles use the cached configuration and validate no
\* more.
C23_ConfigFailsClosed ==
    /\ [](BadEnvironment(boot.env)
          => /\ ~boot.validated
             /\ ~hasState
             /\ st = DefaultState(0)
             /\ probes = <<>>
             /\ calls = <<>>
             /\ pc["c1"] \in {"idle", "done"}
             /\ boot.validations = cycleNo)
    /\ [][boot.validated => boot' = boot]_vars
    /\ [](boot.validated
          => /\ boot.validations = 1
             /\ boot.validatedConfig = ValidateEnvironment(boot.env))

\* two timer firings with an http monitor URL: two validations, nothing else
C23_Witness ==
    /\ boot.env.MONITOR_URL = "http://site"
    /\ cycleNo = 2
    /\ boot.validations = 2
    /\ pc["c1"] = "done"
    /\ ~hasState

\* ---- GET requests

\* a GET /health is answered in this step
HealthStep == resp'.req = "health" /\ adminNo' # adminNo

\* the age in milliseconds of the last cron run at a GET /health
CronAgeMs == now - GetState.lastCronExecution

\* the parts of the /health mapping that do not depend on the threshold
HealthMapping ==
    /\ resp'.health = "degraded"
         <=> (resp'.reachable /\ GetState.lastCronExecution = NoTime)
    /\ resp'.reachable
         => resp'.status = 200 /\ resp'.durableObjectsAvailable
    /\ ~resp'.reachable
         => /\ resp'.health = "unhealthy"
            /\ resp'.status = 503
            /\ ~resp'.durableObjectsAvailable

C25_StoreUnavailable503 ==
    (resp.req \in {"health", "status"} /\ ~resp.reachable)
    => /\ resp.status = 503
       /\ resp.req = "health" => resp.health = "unhealthy"

\* C26: the first store operation on an instance without persisted state
\* persists the default state with the operation applied to it (counters and
\* totals 0, rule off, no maintenance, no windows, no history, no check time,
\* latch off, workerStartTime = now); once set, workerStartTime never changes.
C26_FirstAccess ==
    [][/\ ((~hasState /\ hasState')
           => /\ [st' EXCEPT !.lastCronExecution = NoTime]
                 = [failureCount |-> 0,
                    recoveryCount |-> 0,
                    lastCheckTime |-> NoTime,
                    redirectRuleEnabled |-> FALSE,
                    maintenanceMode |-> FALSE,
                    scheduledMaintenanceWindows |-> <<>>,
                    redirectRuleHistory |-> <<>>,
                    healthChecksTotal |-> 0,
                    successesTotal |-> 0,
                    failuresTotal |-> 0,
                    redirectRuleChangesTotal |-> 0,
                    apiErrorsTotal |-> 0,
                    lastCronExecution |-> NoTime,
                    workerStartTime |-> now,
                    apiCallsDisabled |-> FALSE]
              /\ st'.lastCronExecution \in {NoTime, now})
        /\ (hasState => /\ hasState'
                        /\ st'.workerStartTime = st.workerStartTime)]_vars

\* a store first accessed at 500 ms that has since recorded a health check
\* at a later time
C26_Witness ==
    /\ hasState
    /\ st.workerStartTime = 500
    /\ st.healthChecksTotal >= 1
    /\ now > 500

\* C27: the sweep run at time t removes exactly the windows whose endTime is
\* before t; it keeps every window active at t (startTime <= t <= endTime),
\* a window ending at t included, and every window not yet started.
C27_SweepKeepsActive ==
    [][\A c \in DOMAIN pc :
         (pc[c] = "clean" /\ pc'[c] = "read")
         => st'.scheduledMaintenanceWindows
            = SelectSeq(GetState.scheduledMaintenanceWindows,
                        LAMBDA w : ~(w.endTime < now))]_vars

\* C28: for each address, of the calls to check that fall in one window
\* (from the call that opened it until open time + windowMs) at most
\* MaxRequests are allowed and every further one is refused; the first call
\* after the window is allowed and opens a window with count 1; a call for
\* one address never changes an answer for another address.
C28_RateLimiter ==
    [][rl' # rl
       => LET ip == rl'.last.ip
              w == rl.seen[ip]
          IN  /\ rl'.seen[ip].allowed <= MaxRequests
              /\ (InWindow(w, now) /\ w.allowed >= MaxRequests)
                 => ~rl'.last.allowed
              /\ ~InWindow(w, now)
                 => /\ rl'.last.allowed
                    /\ rl'.requests[ip]
                       = [count |-> 1, resetTime |-> now + WindowMs]
              /\ \A other \in IPs \ {ip} :
                    /\ rl'.seen[other] = rl.seen[other]
                    /\ \A t \in RateTimes : \A clean \in BOOLEAN :
                          t >= now
                          => Check(rl'.requests, other, t, clean).allowed
                             = Check(rl.requests, other, t, clean).allowed]_vars

\* a call refused exactly at the resetTime of a window opened at 0, after
\* MaxRequests allowed ones
C28_Witness ==
    /\ ~rl.last.allowed
    /\ rl.last.at = WindowMs
    /\ rl.seen[rl.last.ip] = [opened |-> 0, allowed |-> MaxRequests]
    /\ rl.last.retryAfter = 0

\* C29: a cycle starts an enable call only if redirectRuleEnabled is false in
\* the state its increment-failure returned, and a disable call only if it is
\* true in the state its increment-recovery returned, whatever happened to
\* the flag since the cycle read the state.
C29_FreshTransitionCondition ==
    [][\A c \in Cycles :
         (RecordStep(c) /\ pc'[c] = "api")
         => st'.redirectRuleEnabled = ~loc'[c].target]_vars

\* C30: when an updateRedirectRule call ends with AUTHENTICATION_FAILED,
\* apiCallsDisabled is true once the operation that made the call (a cycle,
\* POST /simulate-failover or POST /simulate-recovery) has completed.
C30_AuthFailureLatches ==
    [][\A p \in Procs :
         (pc[p] # "done" /\ pc'[p] = "done" /\ loc'[p].outcome = "auth")
         => (hasState' /\ st'.apiCallsDisabled)]_vars

\* a cycle whose updateRedirectRule call has returned makes a store request
\* and the store answers it
AfterCallStep(c) ==
    /\ pc[c] \in {"update", "reset", "apierr", "latch"}
    /\ pc'[c] # pc[c]
    /\ loc'[c].caught = loc[c].caught

\* C31: for each updateRedirectRule call of a cycle exactly one recording
\* happens. On success the flag is set to the target, one history entry is
\* prepended and the consecutive counters become (0,0); on failure
\* apiErrorsTotal grows by exactly 1 and the flag, the history, the counters
\* and the latch are unchanged; on AUTHENTICATION_FAILED the latch is set and
\* apiErrorsTotal is unchanged; apiErrorsTotal never grows after a success.
C31_Trisection ==
    [][\A c \in Cycles :
         AfterCallStep(c)
         => /\ loc[c].outcome = "success" => pc[c] \in {"update", "reset"}
            /\ loc[c].outcome = "failure" => pc[c] = "apierr"
            /\ loc[c].outcome = "auth" => pc[c] = "latch"
            /\ pc[c] = "update"
               => /\ st'.redirectRuleEnabled = loc[c].target
                  /\ Len(st'.redirectRuleHistory) >= 1
                  /\ st'.redirectRuleHistory[1].event
                     = (IF loc[c].target THEN "enabled" ELSE "disabled")
                  /\ SubSeq(st'.redirectRuleHistory, 2,
                            Len(st'.redirectRuleHistory))
                     = SubSeq(st.redirectRuleHistory, 1,
                              Len(st'.redirectRuleHistory) - 1)
                  /\ st'.apiErrorsTotal = st.apiErrorsTotal
            /\ pc[c] = "reset"
               => /\ st'.failureCount = 0
                  /\ st'.recoveryCount = 0
                  /\ st'.apiErrorsTotal <= st.apiErrorsTotal
            /\ pc[c] = "apierr"
               => st' = [st EXCEPT !.apiErrorsTotal = @ + 1]
            /\ pc[c] = "latch"
               => st' = [st EXCEPT !.apiCallsDisabled = TRUE]]_vars

\* the fields a cycle without a transition leaves alone
Untouched(s) ==
    [redirectRuleEnabled |-> s.redirectRuleEnabled,
     redirectRuleHistory |-> s.redirectRuleHistory,
     redirectRuleChangesTotal |-> s.redirectRuleChangesTotal,
     apiErrorsTotal |-> s.apiErrorsTotal,
     apiCallsDisabled |-> s.apiCallsDisabled,
     maintenanceMode |-> s.maintenanceMode]

\* the cycle records a probe that calls for no transition: the threshold is
\* not reached, or the rule is recorded in the target state, or the cycle
\* found maintenance active
NoOpRecord(c) ==
    /\ RecordStep(c)
    /\ LET count == IF loc[c].isHealthy THEN GetState.recoveryCount + 1
                                        ELSE GetState.failureCount + 1
           threshold == IF loc[c].isHealthy
                        THEN config.recoveryCountThreshold
                        ELSE config.failureCountThreshold
       IN \/ count < threshold
          \/ GetState.redirectRuleEnabled = ~loc[c].isHealthy
          \/ loc[c].maintenanceModeActive

\* C32: a cycle in which the threshold is not reached, or the rule is already
\* in the target state, or maintenance is active persists the new consecutive
\* counters, check totals and lastCheckTime, makes no updateRedirectRule call
\* and leaves redirectRuleEnabled, the history, redirectRuleChangesTotal,
\* apiErrorsTotal, apiCallsDisabled, maintenance mode and, but for the sweep,
\* the windows unchanged.
C32_NoOpFrame ==
    [][\A c \in Cycles :
         /\ NoOpRecord(c)
            => /\ pc'[c] = "done"
               /\ calls' = calls
               /\ hasState'
               /\ st'.lastCheckTime = now
               /\ st'.healthChecksTotal = GetState.healthChecksTotal + 1
               /\ IF loc[c].isHealthy
                  THEN /\ st'.recoveryCount = GetState.recoveryCount + 1
                       /\ st'.failureCount = 0
                       /\ st'.successesTotal = GetState.successesTotal + 1
                       /\ st'.failuresTotal = GetState.failuresTotal
                  ELSE /\ st'.failureCount = GetState.failureCount + 1
                       /\ st'.recoveryCount = 0
                       /\ st'.failuresTotal = GetState.failuresTotal + 1
                       /\ st'.successesTotal = GetState.successesTotal
         /\ (pc'[c] # pc[c] /\ pc[c] \in {"idle", "done", "clean", "read",
                                          "probe", "record"})
            => /\ Untouched(st') = Untouched(GetState)
               /\ IF pc[c] = "clean"
                  THEN \A i \in 1..Len(st'.scheduledMaintenanceWindows) :
                         \E j \in 1..Len(GetState.scheduledMaintenanceWindows) :
                           st'.scheduledMaintenanceWindows[i]
                           = GetState.scheduledMaintenanceWindows[j]
                  ELSE st'.scheduledMaintenanceWindows
                       = GetState.scheduledMaintenanceWindows]_vars

\* a cycle that found maintenance active has recorded a failure count at the
\* threshold and made no call
C32_Witness ==
    /\ pc["c1"] = "done"
    /\ loc["c1"].maintenanceModeActive
    /\ ~loc["c1"].isHealthy
    /\ loc["c1"].newCount >= config.failureCountThreshold
    /\ st.failureCount = loc["c1"].newCount
    /\ st.lastCheckTime = now
    /\ ~st.redirectRuleEnabled
    /\ calls = <<>>

\* C33: every history entry a timer cycle adds with event enabled holds
\* failureCount >= failureCountThreshold and recoveryCount = 0, and every one
\* with event disabled holds recoveryCount >= recoveryCountThreshold and
\* failureCount = 0, whatever requests were served between the cycle's
\* counter update and its update-redirect-rule-state.
C33_HistoryCountersAtTransition ==
    [][\A c \in Cycles :
         (pc[c] = "update" /\ pc'[c] = "reset")
         => LET entry == st'.redirectRuleHistory[1]
            IN  IF entry.event = "enabled"
                THEN /\ entry.failureCount >= config.failureCountThreshold
                     /\ entry.recoveryCount = 0
                ELSE /\ entry.recoveryCount >= config.recoveryCountThreshold
                     /\ entry.failureCount = 0]_vars

\* no cycle and no simulate request is in flight
Quiescent == \A p \in Procs : pc[p] \in {"idle", "done"}

\* C34: in every quiescent state the persisted redirectRuleEnabled equals the
\* enabled value most recently written successfully to the external rule.
C34_PersistedTracksExternal ==
    (/\ Quiescent
     /\ \E i \in DOMAIN calls : calls[i].outcome = "success")
    => (hasState /\ st.redirectRuleEnabled = extRule)

FailedBefore(c, enabled) ==
    /\ calls # <<>>
    /\ calls[Len(calls)].by \in Cycles
    /\ calls[Len(calls)].no = loc[c].no - 1
    /\ calls[Len(calls)].enabled = enabled
    /\ calls[Len(calls)].outcome = "failure"

\* C36: a cycle whose enable call returned false leaves failureCount at or
\* above the threshold and redirectRuleEnabled false, and the next cycle, if
\* its probe is Unhealthy, starts a new enable call; symmetrically a failed
\* disable call is repeated by the next cycle with a Healthy probe.
C36_FailedToggleRetried ==
    [][\A c \in Cycles :
         /\ (pc[c] = "apierr" /\ pc'[c] = "done")
            => /\ st'.redirectRuleEnabled = ~loc[c].target
               /\ st'.failureCount = st.failureCount
               /\ st'.recoveryCount = st.recoveryCount
               /\ IF loc[c].target
                  THEN st'.failureCount >= config.failureCountThreshold
                  ELSE st'.recoveryCount >= config.recoveryCountThreshold
         /\ (RecordStep(c) /\ FailedBefore(c, ~loc[c].isHealthy))
            => /\ pc'[c] = "api"
               /\ calls' = Append(calls, Call(c, loc[c].no,
                                              ~loc[c].isHealthy))]_vars

\* two enable calls that returned false, each repeated by the next cycle,
\* and a third one that succeeded
C36_Witness ==
    /\ Len(calls) = 3
    /\ \A i \in 1..3 : calls[i].enabled /\ calls[i].no = i
    /\ calls[1].outcome = "failure"
    /\ calls[2].outcome = "failure"
    /\ calls[3].outcome = "success"
    /\ st.redirectRuleEnabled

\* the count of the probe cycle c is about to record, and its threshold
CountOf(c) ==
    IF loc[c].isHealthy THEN GetState.recoveryCount + 1
                        ELSE GetState.failureCount + 1

ThresholdOf(c) ==
    IF loc[c].isHealthy THEN config.recoveryCountThreshold
                        ELSE config.failureCountThreshold

\* the counter towards target had reached its threshold in the cycle before
\* cycle c, with the rule recorded in the other state, and that cycle made
\* no updateRedirectRule call
SuppressedCrossing(c, target) ==
    /\ IF target
       THEN GetState.failureCount >= config.failureCountThreshold
       ELSE GetState.recoveryCount >= config.recoveryCountThreshold
    /\ GetState.redirectRuleEnabled = ~target
    /\ \A i \in DOMAIN calls : calls[i].no # loc[c].no - 1

\* C37: a cycle that reaches the threshold while maintenance is active makes
\* no call and persists the count; the first cycle after it that finds
\* maintenance over and probes the same result starts the call at once; if
\* the probe result flips first, the counter is zeroed and no call is made.
C37_SuppressedCrossingKept ==
    [][\A c \in Cycles :
         RecordStep(c)
         => /\ (loc[c].maintenanceModeActive /\ CountOf(c) >= ThresholdOf(c))
               => /\ pc'[c] = "done"
                  /\ calls' = calls
                  /\ CountOf(c) = (IF loc[c].isHealthy
                                   THEN st'.recoveryCount
                                   ELSE st'.failureCount)
            /\ (/\ SuppressedCrossing(c, ~loc[c].isHealthy)
                /\ ~loc[c].maintenanceModeActive)
               => /\ pc'[c] = "api"
                  /\ calls' = Append(calls, Call(c, loc[c].no,
                                                 ~loc[c].isHealthy))
            /\ SuppressedCrossing(c, loc[c].isHealthy)
               => /\ pc'[c] = "done"
                  /\ calls' = calls
                  /\ IF loc[c].isHealthy THEN st'.failureCount = 0
                                         ELSE st'.recoveryCount = 0]_vars

\* failure threshold 2: the second Unhealthy probe fell into maintenance, the
\* third one, after maintenance, started the only call with a count of 3
C37_Witness ==
    /\ config.failureCountThreshold = 2
    /\ probes = <<FALSE, FALSE, FALSE>>
    /\ Len(calls) = 1
    /\ calls[1].no = 3
    /\ calls[1].enabled
    /\ loc["c1"].newCount = 3
    /\ ~loc["c1"].maintenanceModeActive

\* C38: in every reachable state healthChecksTotal = successesTotal +
\* failuresTotal.
C38_TotalsAddUp ==
    GetState.healthChecksTotal
    = GetState.successesTotal + GetState.failuresTotal

\* two probes recorded with POST /reset-counters served between them: the
\* totals count the second probe only
C38_Witness ==
    /\ Len(probes) = 2
    /\ resp.req = "reset-counters"
    /\ calls = <<>>
    /\ st.healthChecksTotal = 1
    /\ st.successesTotal = 1
    /\ st.failuresTotal = 0

\* redirectRuleEnabled is what the newest history entry says
AgreesWithHistory(s) ==
    IF s.redirectRuleHistory = <<>>
    THEN ~s.redirectRuleEnabled
    ELSE s.redirectRuleEnabled = (s.redirectRuleHistory[1].event = "enabled")

\* C39: redirectRuleEnabled is false while the history is empty and
\* otherwise true exactly when the newest entry has event enabled; only
\* update-redirect-rule-state changes the flag or the history.
C39_FlagAgreesWithHistory ==
    [][/\ AgreesWithHistory(GetState)
       /\ AgreesWithHistory(st')
       /\ (\/ st'.redirectRuleEnabled # GetState.redirectRuleEnabled
           \/ st'.redirectRuleHistory # GetState.redirectRuleHistory)
          => \E p \in Procs : pc[p] = "update" /\ pc'[p] = "reset"]_vars

\* a cycle enabled the rule and a /simulate-recovery disabled it again
C39_Witness ==
    /\ Len(st.redirectRuleHistory) = 2
    /\ st.redirectRuleHistory[1].event = "disabled"
    /\ st.redirectRuleHistory[2].event = "enabled"
    /\ ~st.redirectRuleEnabled
    /\ extRule = FALSE
    /\ Quiescent

====
